---- MODULE Spec2Model ----
(***************************************************************************)
(* A model of msg_lib.py (PTC-Sim): the MsgQueue container, the EMP        *)
(* message codec (Message._to_raw / Message._to_tuple) and the broker      *)
(* Client (send_msg / fetch_next_msg).                                     *)
(*                                                                         *)
(* Strings are sequences of byte values (0..255).  Python exceptions are   *)
(* records [cls, at]: the exception class and the source line of the raise *)
(* statement that reaches the caller.                                      *)
(***************************************************************************)
EXTENDS Integers, Sequences, FiniteSets, TLC

\* ------------------------------------------------------------------ bounds
\* Largest maxsize handed to the MsgQueue constructor.
MaxSizeArg == 3
\* Number of method calls made on one queue.
MaxOps == 6
\* Largest index handed to peek / remove (indices range over -MaxIdx..MaxIdx).
MaxIdx == 3
\* Number of distinct items pushed.
NItems == 2
\* Longest short sender / destination address (bytes drawn from AddrBytes).
MaxAddrLen == 1
\* Number of send_msg / fetch_next_msg calls made on one Client.
MaxCalls == 3

\* ------------------------------------------------------------- Python bits
\* An optional integer is a set of at most one integer; None is the empty set.
None == {}
Some(k) == {k}
Val(m) == CHOOSE k \in m : TRUE
NoExc == [cls |-> "NoExc", at |-> 0]
Raise(cls, line) == [cls |-> cls, at |-> line]

Min(a, b) == IF a < b THEN a ELSE b
Max(a, b) == IF a > b THEN a ELSE b

\* Python truth value of a maxsize argument (None and 0 are false).
Truthy(m) == m # None /\ Val(m) # 0

\* A Python slice bound i clipped to a list of length L.
SliceBound(i, L) == IF i < 0 THEN Max(L + i, 0) ELSE Min(i, L)

\* s[a:b] as Python computes it.
PySlice(s, a, b) ==
    LET lo == SliceBound(a, Len(s))
        hi == SliceBound(b, Len(s))
    IN  IF lo >= hi THEN << >> ELSE SubSeq(s, lo + 1, hi)

\* s[a:] as Python computes it.
PySliceFrom(s, a) == PySlice(s, a, Len(s))

\* Whether s[n] raises IndexError.
IndexOk(s, n) == -Len(s) <= n /\ n < Len(s)

\* s[n] for a valid n (negative n counts from the back).
PyIndex(s, n) == IF n >= 0 THEN s[n + 1] ELSE s[Len(s) + n + 1]

\* ---------------------------------------------------------------- MsgQueue
item_count(q_items) == Len(q_items)

is_empty(q_items) == item_count(q_items) = 0

is_full_ge_only(q_items, q_maxsize) ==
    Truthy(q_maxsize) /\ item_count(q_items) > Val(q_maxsize)

is_full(q_items, q_maxsize) ==
    Truthy(q_maxsize) /\ item_count(q_items) >= Val(q_maxsize)

\* __init__: the exception it raises for a maxsize argument.
init_exc(m) == IF Truthy(m) /\ Val(m) < 0 THEN Raise("ValueError", 43) ELSE NoExc

\* Each method is a function from the queue's fields and the arguments to
\* the new item list, the exception raised and the value returned
\* (0 stands for a None return; items are positive).
push_then_check(q_items, q_maxsize, item) ==
    IF is_full(q_items, q_maxsize)
    THEN [items |-> Append(q_items, item), exc |-> Raise("Full", 50), ret |-> 0]
    ELSE [items |-> Append(q_items, item), exc |-> NoExc, ret |-> 0]

push_front(q_items, q_maxsize, item) ==
    IF is_full(q_items, q_maxsize)
    THEN [items |-> q_items, exc |-> Raise("Full", 50), ret |-> 0]
    ELSE [items |-> <<item>> \o q_items, exc |-> NoExc, ret |-> 0]

push(q_items, q_maxsize, item) ==
    IF is_full(q_items, q_maxsize)
    THEN [items |-> q_items, exc |-> Raise("Full", 50), ret |-> 0]
    ELSE [items |-> Append(q_items, item), exc |-> NoExc, ret |-> 0]

pop(q_items) ==
    IF is_empty(q_items)
    THEN [items |-> q_items, exc |-> Raise("Empty", 58), ret |-> 0]
    ELSE [items |-> PySliceFrom(q_items, 1), exc |-> NoExc, ret |-> q_items[1]]

peek_removing(q_items, n) ==
    IF is_empty(q_items)
    THEN [items |-> q_items, exc |-> Raise("Empty", 69), ret |-> 0]
    ELSE IF ~IndexOk(q_items, n)
    THEN [items |-> q_items, exc |-> Raise("IndexError", 74), ret |-> 0]
    ELSE [items |-> PySlice(q_items, 0, n) \o PySliceFrom(q_items, n + 1),
          exc |-> NoExc, ret |-> PyIndex(q_items, n)]

peek_no_empty_check(q_items, n) ==
    IF ~IndexOk(q_items, n)
    THEN [items |-> q_items, exc |-> Raise("IndexError", 74), ret |-> 0]
    ELSE [items |-> q_items, exc |-> NoExc, ret |-> PyIndex(q_items, n)]

peek(q_items, n) ==
    IF is_empty(q_items)
    THEN [items |-> q_items, exc |-> Raise("Empty", 69), ret |-> 0]
    ELSE IF ~IndexOk(q_items, n)
    THEN [items |-> q_items, exc |-> Raise("IndexError", 74), ret |-> 0]
    ELSE [items |-> q_items, exc |-> NoExc, ret |-> PyIndex(q_items, n)]

remove_no_probe(q_items, n) ==
    [items |-> PySlice(q_items, 0, n) \o PySliceFrom(q_items, n + 1),
     exc |-> NoExc, ret |-> 0]

remove(q_items, n) ==
    IF ~IndexOk(q_items, n)
    THEN [items |-> q_items, exc |-> Raise("IndexError", 83), ret |-> 0]
    ELSE [items |-> PySlice(q_items, 0, n) \o PySliceFrom(q_items, n + 1),
          exc |-> NoExc, ret |-> 0]

\* ------------------------------------------------------------ byte strings
NUL == 0
Space == 32
Quote == 39
Comma == 44
Minus == 45
Digit0 == 48
Colon == 58
Backslash == 92
LBrace == 123
RBrace == 125

Pow2(n) == 2 ^ n

\* The bits of a byte / of a 32-bit register, as the set of their positions.
BitsOf(b) == {i \in 0..7 : (b \div Pow2(i)) % 2 = 1}

RECURSIVE SumPow2(_)
SumPow2(S) ==
    IF S = {} THEN 0
    ELSE LET i == CHOOSE x \in S : TRUE IN Pow2(i) + SumPow2(S \ {i})

\* Byte k (0 = least significant) of the register with bit set R.
ByteOf(R, k) == SumPow2({i - 8 * k : i \in {j \in R : j \div 8 = k}})

\* binascii.crc32: the reflected CRC-32 (polynomial 0xEDB88320, initial
\* value and final xor 0xFFFFFFFF), computed bit by bit on a register held
\* as a set of bit positions.
CrcPoly == {5, 8, 9, 15, 19, 20, 21, 23, 24, 26, 27, 29, 30, 31}

SymDiff(A, B) == (A \ B) \cup (B \ A)

CrcShift(R) ==
    LET sh == {i - 1 : i \in R \ {0}}
    IN  IF 0 \in R THEN SymDiff(sh, CrcPoly) ELSE sh

RECURSIVE CrcBits(_, _)
CrcBits(R, k) == IF k = 0 THEN R ELSE CrcBits(CrcShift(R), k - 1)

\* The register after bytes lo..hi have been fed in, in order.
RECURSIVE CrcFeed(_, _, _, _)
CrcFeed(R, bytes, lo, hi) ==
    IF lo > hi THEN R
    ELSE IF lo = hi THEN CrcBits(SymDiff(R, BitsOf(bytes[lo])), 8)
    ELSE LET mid == (lo + hi) \div 2
             R2 == CrcFeed(R, bytes, lo, mid)
         IN  IF R2 \subseteq 0..31 THEN CrcFeed(R2, bytes, mid + 1, hi) ELSE {}

\* The CRC register after the final xor, as four bytes, most significant first.
Crc32Bytes(bytes) ==
    LET R == (0..31) \ CrcFeed(0..31, bytes, 1, Len(bytes))
    IN  <<ByteOf(R, 3), ByteOf(R, 2), ByteOf(R, 1), ByteOf(R, 0)>>

\* Four big-endian bytes read as a signed 32-bit integer: struct.unpack(">i").
unpack_i(b) ==
    (IF b[1] >= 128 THEN b[1] - 256 ELSE b[1]) * 16777216
        + b[2] * 65536 + b[3] * 256 + b[4]

\* binascii.crc32 returns a signed 32-bit integer (Python 2).
crc32(bytes) == unpack_i(Crc32Bytes(bytes))

\* struct.pack(">i", v) for v in -2^31 .. 2^31-1.
pack_i(v) ==
    LET hi == IF v < 0 THEN 128 + ((v + 1073741824 + 1073741824) \div 16777216)
                       ELSE v \div 16777216
        lo == IF v < 0 THEN (v + 1073741824 + 1073741824) % 16777216
                       ELSE v % 16777216
    IN  <<hi, lo \div 65536, (lo \div 256) % 256, lo % 256>>

\* struct.pack(">B", v) and struct.pack(">H", v): defined for values in range,
\* struct.error otherwise.
pack_B_ok(v) == 0 <= v /\ v <= 255
pack_B(v) == <<v>>
pack_H_ok(v) == 0 <= v /\ v <= 65535
pack_H(v) == <<v \div 256, v % 256>>
\* struct.pack(">I", v)[1:]: the low-order three bytes.
pack_I_low3(v) == <<(v \div 65536) % 256, (v \div 256) % 256, v % 256>>

unpack_H(b) == b[1] * 256 + b[2]
unpack_B(b) == b[1]

\* ------------------------------------------------- payload text (str / eval)
\* A payload is a Python dict: a function from keys (byte strings) to values.
\* A value is [t |-> "int", i |-> n, s |-> <<>>] or [t |-> "str", i |-> 0, s |-> bytes].
IntVal(n) == [t |-> "int", i |-> n, s |-> << >>]
StrVal(b) == [t |-> "str", i |-> 0, s |-> b]
EmptyDict == [k \in {} |-> IntVal(0)]

RECURSIVE DigitsOf(_)
DigitsOf(n) ==
    IF n < 10 THEN <<Digit0 + n>>
    ELSE Append(DigitsOf(n \div 10), Digit0 + (n % 10))

\* repr of an int and of a str without quote, backslash or control bytes.
ReprInt(n) == IF n < 0 THEN <<Minus>> \o DigitsOf(-n) ELSE DigitsOf(n)
ReprStr(b) == <<Quote>> \o b \o <<Quote>>
ReprVal(v) == IF v.t = "int" THEN ReprInt(v.i) ELSE ReprStr(v.s)

RECURSIVE ReprEntries(_, _, _)
ReprEntries(d, order, i) ==
    IF i > Len(order) THEN << >>
    ELSE (IF i > 1 THEN <<Comma, Space>> ELSE << >>)
         \o ReprStr(order[i]) \o <<Colon, Space>> \o ReprVal(d[order[i]])
         \o ReprEntries(d, order, i + 1)

\* str(payload) for a dict whose iteration order is `order`.
PyStr(d, order) == <<LBrace>> \o ReprEntries(d, order, 1) \o <<RBrace>>

\* eval(payload) on the dict literals str() writes.  A parse result is
\* [ok, val, next]; ok = FALSE stands for the exception eval raises.
ParseFail == [ok |-> FALSE, val |-> IntVal(0), next |-> 0]

IsDigit(c) == Digit0 <= c /\ c <= Digit0 + 9

ParseStrLit(b, i) ==
    IF i > Len(b) \/ b[i] # Quote THEN ParseFail
    ELSE LET ends == {j \in (i + 1)..Len(b) : b[j] = Quote}
         IN  IF ends = {} THEN ParseFail
             ELSE LET j == CHOOSE x \in ends : \A y \in ends : x <= y
                  IN  IF \E k \in (i + 1)..(j - 1) : b[k] = Backslash \/ b[k] < Space
                      THEN ParseFail
                      ELSE [ok |-> TRUE, val |-> StrVal(SubSeq(b, i + 1, j - 1)),
                            next |-> j + 1]

RECURSIVE DigitsValue(_, _, _)
DigitsValue(b, i, j) ==
    IF j < i THEN 0 ELSE 10 * DigitsValue(b, i, j - 1) + (b[j] - Digit0)

ParseIntLit(b, i) ==
    LET neg == i <= Len(b) /\ b[i] = Minus
        st == IF neg THEN i + 1 ELSE i
        stops == {j \in st..(Len(b) + 1) : j > Len(b) \/ ~IsDigit(b[j])}
        en == (CHOOSE x \in stops : \A y \in stops : x <= y) - 1
    IN  IF st > Len(b) \/ en < st \/ en - st >= 9 THEN ParseFail
        ELSE IF en > st /\ b[st] = Digit0 THEN ParseFail
        ELSE [ok |-> TRUE,
              val |-> IntVal(IF neg THEN -DigitsValue(b, st, en)
                             ELSE DigitsValue(b, st, en)),
              next |-> en + 1]

ParseValue(b, i) ==
    IF i <= Len(b) /\ b[i] = Quote THEN ParseStrLit(b, i) ELSE ParseIntLit(b, i)

HasAt(b, i, lit) ==
    /\ i + Len(lit) - 1 <= Len(b)
    /\ \A k \in 1..Len(lit) : b[i + k - 1] = lit[k]

\* Parses "key: value" entries from position i up to the closing brace;
\* a repeated key keeps its last value, as a dict literal does.
RECURSIVE ParseEntries(_, _, _)
ParseEntries(b, i, acc) ==
    LET k == ParseStrLit(b, i) IN
    IF ~k.ok \/ ~HasAt(b, k.next, <<Colon, Space>>) THEN [ok |-> FALSE, dict |-> EmptyDict]
    ELSE LET v == ParseValue(b, k.next + 2) IN
         IF ~v.ok THEN [ok |-> FALSE, dict |-> EmptyDict]
         ELSE LET acc2 == [x \in (DOMAIN acc) \cup {k.val.s} |->
                               IF x = k.val.s THEN v.val ELSE acc[x]]
              IN  IF v.next = Len(b) /\ b[v.next] = RBrace
                  THEN [ok |-> TRUE, dict |-> acc2]
                  ELSE IF HasAt(b, v.next, <<Comma, Space>>)
                  THEN ParseEntries(b, v.next + 2, acc2)
                  ELSE [ok |-> FALSE, dict |-> EmptyDict]

PyEval(b) ==
    IF Len(b) < 2 \/ b[1] # LBrace THEN [ok |-> FALSE, dict |-> EmptyDict]
    ELSE IF Len(b) = 2 /\ b[2] = RBrace THEN [ok |-> TRUE, dict |-> EmptyDict]
    ELSE ParseEntries(b, 2, EmptyDict)

\* ----------------------------------------------------------------- Message
\* A message tuple is [type, sender, dest, payload]; `order` is the
\* iteration order of the payload dict (fixed by the interpreter's hashing).
NoTuple == [type |-> 0, sender |-> << >>, dest |-> << >>, payload |-> EmptyDict]

\* The bytes _to_raw has built before the checksum (lines 152-168).
raw_head_no_terminators(t, order) ==
    LET payload_str == PyStr(t.payload, order)
        body_size == 4 + Len(payload_str)
        var_headsize == Len(t.sender) + Len(t.dest)
    IN  pack_B(4) \o pack_H(t.type) \o pack_B(1) \o pack_B(0)
        \o pack_I_low3(body_size)
        \o pack_B(var_headsize) \o pack_H(120) \o pack_H(0)
        \o t.sender \o <<NUL>> \o t.dest \o <<NUL>>
        \o payload_str

raw_head_little_endian(t, order) ==
    LET payload_str == PyStr(t.payload, order)
        body_size == 4 + Len(payload_str)
        var_headsize == Len(t.sender) + Len(t.dest) + 2
    IN  pack_B(4) \o <<t.type % 256, t.type \div 256>> \o pack_B(1) \o pack_B(0)
        \o pack_I_low3(body_size)
        \o pack_B(var_headsize) \o <<120, 0>> \o pack_H(0)
        \o t.sender \o <<NUL>> \o t.dest \o <<NUL>>
        \o payload_str

raw_head(t, order) ==
    LET payload_str == PyStr(t.payload, order)
        body_size == 4 + Len(payload_str)
        var_headsize == Len(t.sender) + Len(t.dest) + 2
    IN  pack_B(4) \o pack_H(t.type) \o pack_B(1) \o pack_B(0)
        \o pack_I_low3(body_size)
        \o pack_B(var_headsize) \o pack_H(120) \o pack_H(0)
        \o t.sender \o <<NUL>> \o t.dest \o <<NUL>>
        \o payload_str

to_raw_unchecked(t, order) ==
    [exc |-> NoExc,
     raw |-> raw_head(t, order) \o pack_i(crc32(raw_head(t, order)))]

to_raw(t, order) ==
    IF ~pack_H_ok(t.type) \/ ~pack_B_ok(Len(t.sender) + Len(t.dest) + 2)
    THEN [exc |-> Raise("Exception", 171), raw |-> << >>]
    ELSE [exc |-> NoExc,
          raw |-> raw_head(t, order) \o pack_i(crc32(raw_head(t, order)))]

\* vhead.split('\x00'): the fields between NUL bytes.
SplitNul(b) ==
    LET nuls == {i \in 1..Len(b) : b[i] = NUL}
        pos(k) == IF k = 0 THEN 0
                  ELSE IF k > Cardinality(nuls) THEN Len(b) + 1
                  ELSE CHOOSE p \in nuls : Cardinality({q \in nuls : q < p}) = k - 1
    IN  [k \in 1..(Cardinality(nuls) + 1) |-> SubSeq(b, pos(k - 1) + 1, pos(k) - 1)]

to_tuple_no_crc(raw_msg) ==
    IF Len(raw_msg) < 20
    THEN [exc |-> Raise("Exception", 181), tuple |-> NoTuple, evald |-> FALSE]
    ELSE
    LET msg_type == unpack_H(PySlice(raw_msg, 1, 3))
        vhead_size == unpack_B(PySlice(raw_msg, 8, 9))
        vhead_end == 13 + vhead_size
        vhead == SplitNul(PySlice(raw_msg, 13, vhead_end))
        payload == PySlice(raw_msg, vhead_end, Len(raw_msg) - 4)
    IN  IF Len(vhead) < 2
        THEN [exc |-> Raise("IndexError", 199), tuple |-> NoTuple, evald |-> FALSE]
        ELSE IF ~PyEval(payload).ok
        THEN [exc |-> Raise("Exception", 206), tuple |-> NoTuple, evald |-> TRUE]
        ELSE [exc |-> NoExc, evald |-> TRUE,
              tuple |-> [type |-> msg_type, sender |-> vhead[1],
                         dest |-> vhead[2], payload |-> PyEval(payload).dict]]

to_tuple_min16(raw_msg) ==
    IF Len(raw_msg) < 16
    THEN [exc |-> Raise("Exception", 181), tuple |-> NoTuple, evald |-> FALSE]
    ELSE IF unpack_i(PySliceFrom(raw_msg, -4)) # crc32(PySlice(raw_msg, 0, -4))
    THEN [exc |-> Raise("Exception", 188), tuple |-> NoTuple, evald |-> FALSE]
    ELSE to_tuple_no_crc(raw_msg)

to_tuple_checks_body_size(raw_msg) ==
    IF Len(raw_msg) < 20
    THEN [exc |-> Raise("Exception", 181), tuple |-> NoTuple, evald |-> FALSE]
    ELSE IF unpack_i(PySliceFrom(raw_msg, -4)) # crc32(PySlice(raw_msg, 0, -4))
    THEN [exc |-> Raise("Exception", 188), tuple |-> NoTuple, evald |-> FALSE]
    ELSE IF raw_msg[6] * 65536 + raw_msg[7] * 256 + raw_msg[8]
            # Len(raw_msg) - Min(13 + raw_msg[9], Len(raw_msg) - 4)
    THEN [exc |-> Raise("Exception", 181), tuple |-> NoTuple, evald |-> FALSE]
    ELSE to_tuple_no_crc(raw_msg)

to_tuple_eval_first(raw_msg) ==
    IF Len(raw_msg) < 20
    THEN [exc |-> Raise("Exception", 181), tuple |-> NoTuple, evald |-> FALSE]
    ELSE IF ~PyEval(PySlice(raw_msg, 13 + raw_msg[9], Len(raw_msg) - 4)).ok
    THEN [exc |-> Raise("Exception", 206), tuple |-> NoTuple, evald |-> TRUE]
    ELSE IF unpack_i(PySliceFrom(raw_msg, -4)) # crc32(PySlice(raw_msg, 0, -4))
    THEN [exc |-> Raise("Exception", 188), tuple |-> NoTuple, evald |-> TRUE]
    ELSE to_tuple_no_crc(raw_msg)

to_tuple(raw_msg) ==
    IF Len(raw_msg) < 20
    THEN [exc |-> Raise("Exception", 181), tuple |-> NoTuple, evald |-> FALSE]
    ELSE IF unpack_i(PySliceFrom(raw_msg, -4)) # crc32(PySlice(raw_msg, 0, -4))
    THEN [exc |-> Raise("Exception", 188), tuple |-> NoTuple, evald |-> FALSE]
    ELSE
    LET msg_type == unpack_H(PySlice(raw_msg, 1, 3))
        vhead_size == unpack_B(PySlice(raw_msg, 8, 9))
        vhead_end == 13 + vhead_size
        vhead == SplitNul(PySlice(raw_msg, 13, vhead_end))
        payload == PySlice(raw_msg, vhead_end, Len(raw_msg) - 4)
    IN  IF Len(vhead) < 2
        THEN [exc |-> Raise("IndexError", 199), tuple |-> NoTuple, evald |-> FALSE]
        ELSE IF ~PyEval(payload).ok
        THEN [exc |-> Raise("Exception", 206), tuple |-> NoTuple, evald |-> TRUE]
        ELSE [exc |-> NoExc, evald |-> TRUE,
              tuple |-> [type |-> msg_type, sender |-> vhead[1],
                         dest |-> vhead[2], payload |-> PyEval(payload).dict]]

\* ------------------------------------------------------------------- state
VARIABLES
    constructed,   \* whether MsgQueue.__init__ has returned an object
    items,         \* MsgQueue._items
    maxsize,       \* MsgQueue.maxsize
    last,          \* the last call: method, argument, list before, outcome
    nOps,          \* number of method calls made so far
    onlyPushes,    \* every call so far was a push
    pushExcs,      \* the outcome of each push call while onlyPushes
    fifoPhase,     \* "push": only successful pushes so far; "pop": those
                   \* pushes followed by only pops; "fail": one of those
                   \* pops raised; "off": any other history
    fifoPushed,    \* the items pushed in the "push" phase
    fifoPopped,    \* the items returned in the "pop" phase
    \* codec
    cpc,           \* "idle", "start", "encoded", "encfail", "decoded"
    msg_tuple,     \* the tuple handed to _to_raw
    order,         \* iteration order of the tuple's payload dict
    encoded,       \* what _to_raw raised / returned
    wire,          \* the bytes handed to _to_tuple
    flip,          \* the body bit flipped in wire (-1: none)
    decoded,       \* what _to_tuple raised / returned (evald: eval ran)
    forge,         \* how wire was altered other than by a bit flip
    msgobj,        \* what the last Message(...) construction raised / built
    \* client
    kpc,           \* "idle" or "ready"
    calls,         \* number of Client calls made
    lastCall,      \* the last send_msg / fetch_next_msg call and its outcome
    openSocks      \* sockets opened by earlier calls and never closed

qvars == <<constructed, items, maxsize, last, nOps, onlyPushes, pushExcs,
           fifoPhase, fifoPushed, fifoPopped>>
cvars == <<cpc, msg_tuple, order, encoded, wire, flip, decoded, forge, msgobj>>
kvars == <<kpc, calls, lastCall, openSocks>>
vars == <<qvars, cvars, kvars>>

Items == 1..NItems
Indices == (-MaxIdx)..MaxIdx
MaxsizeArgs == {None} \cup {Some(k) : k \in (-1)..MaxSizeArg}

NoCall == [op |-> "none", arg |-> 0, before |-> << >>, exc |-> NoExc, ret |-> 0]

QueueInit ==
    /\ constructed = FALSE
    /\ items = << >>
    /\ maxsize = None
    /\ last = NoCall
    /\ nOps = 0
    /\ onlyPushes = TRUE
    /\ pushExcs = << >>
    /\ fifoPhase = "push"
    /\ fifoPushed = << >>
    /\ fifoPopped = << >>

\* The codec and the client before any use.
NoResult == [exc |-> NoExc, raw |-> << >>]
NoDecode == [exc |-> NoExc, tuple |-> NoTuple, evald |-> FALSE]

NoForge == [kind |-> "none", arg |-> 0, sealed |-> FALSE]

NoMessage == [raw_msg |-> << >>, msg_type |-> 0, sender_addr |-> << >>,
              dest_addr |-> << >>, payload |-> EmptyDict]
NotBuilt == [exc |-> NoExc, msg |-> NoMessage]

CodecIdle ==
    /\ cpc = "idle"
    /\ msg_tuple = NoTuple
    /\ order = << >>
    /\ encoded = NoResult
    /\ wire = << >>
    /\ flip = -1
    /\ decoded = NoDecode
    /\ forge = NoForge
    /\ msgobj = NotBuilt

NoClientCall ==
    [op |-> "none", net |-> "ok", resp |-> << >>, sent |-> << >>,
     exc |-> NoExc, text |-> "", ret |-> FALSE, msg |-> NoMessage,
     opened |-> FALSE, closed |-> FALSE]

ClientIdle ==
    /\ kpc = "idle"
    /\ calls = 0
    /\ lastCall = NoClientCall
    /\ openSocks = 0

Init == QueueInit /\ CodecIdle /\ ClientIdle

\* MsgQueue(maxsize=m)
Construct(m) ==
    /\ ~constructed
    /\ last = NoCall
    /\ constructed' = (init_exc(m) = NoExc)
    /\ items' = << >>
    /\ maxsize' = IF init_exc(m) = NoExc THEN m ELSE None
    /\ last' = [op |-> "init", arg |-> IF m = None THEN 0 ELSE Val(m),
                before |-> << >>, exc |-> init_exc(m), ret |-> 0]
    /\ UNCHANGED <<nOps, onlyPushes, pushExcs, fifoPhase, fifoPushed, fifoPopped>>
    /\ UNCHANGED <<cvars, kvars>>

\* The bookkeeping every method call shares.
Called(op, arg, r) ==
    /\ items' = r.items
    /\ last' = [op |-> op, arg |-> arg, before |-> items, exc |-> r.exc, ret |-> r.ret]
    /\ nOps' = nOps + 1
    /\ UNCHANGED <<constructed, maxsize>>
    /\ UNCHANGED <<cvars, kvars>>

Push(item) ==
    /\ constructed /\ nOps < MaxOps
    /\ LET r == push(items, maxsize, item) IN
        /\ Called("push", item, r)
        /\ onlyPushes' = onlyPushes
        /\ pushExcs' = IF onlyPushes THEN Append(pushExcs, r.exc.cls) ELSE pushExcs
        /\ IF fifoPhase = "push" /\ r.exc = NoExc
           THEN /\ fifoPushed' = Append(fifoPushed, item)
                /\ UNCHANGED <<fifoPhase, fifoPopped>>
           ELSE /\ fifoPhase' = "off"
                /\ fifoPushed' = << >>
                /\ fifoPopped' = << >>

Pop ==
    /\ constructed /\ nOps < MaxOps
    /\ LET r == pop(items) IN
        /\ Called("pop", 0, r)
        /\ onlyPushes' = FALSE
        /\ pushExcs' = << >>
        /\ IF fifoPhase \in {"push", "pop"} /\ Len(fifoPopped) < Len(fifoPushed)
           THEN /\ fifoPhase' = IF r.exc = NoExc THEN "pop" ELSE "fail"
                /\ fifoPopped' = IF r.exc = NoExc THEN Append(fifoPopped, r.ret)
                                 ELSE fifoPopped
                /\ UNCHANGED fifoPushed
           ELSE /\ fifoPhase' = "off"
                /\ fifoPushed' = << >>
                /\ fifoPopped' = << >>

Peek(n) ==
    /\ constructed /\ nOps < MaxOps
    /\ Called("peek", n, peek(items, n))
    /\ onlyPushes' = FALSE
    /\ pushExcs' = << >>
    /\ fifoPhase' = "off"
    /\ fifoPushed' = << >>
    /\ fifoPopped' = << >>

Remove(n) ==
    /\ constructed /\ nOps < MaxOps
    /\ Called("remove", n, remove(items, n))
    /\ onlyPushes' = FALSE
    /\ pushExcs' = << >>
    /\ fifoPhase' = "off"
    /\ fifoPushed' = << >>
    /\ fifoPopped' = << >>

Next ==
    \/ \E m \in MaxsizeArgs : Construct(m)
    \/ \E item \in Items : Push(item)
    \/ Pop
    \/ \E n \in Indices : Peek(n)
    \/ \E n \in Indices : Remove(n)

Spec == Init /\ [][Next]_vars

\* C16: a peek(n) call, whether it returns or raises, leaves the item
\* sequence (hence the count) and maxsize as they were, and for
\* 0 <= n < count it returns the item at offset n from the front.
C16_PeekReadOnly ==
    /\ [](last.op = "peek" =>
            /\ items = last.before
            /\ (0 <= last.arg /\ last.arg < Len(last.before)) =>
                  (last.exc = NoExc /\ last.ret = last.before[last.arg + 1]))
    /\ [][(last'.op = "peek" /\ nOps' = nOps + 1) =>
            (items' = items /\ Len(items') = Len(items) /\ maxsize' = maxsize)]_vars

C16_Witness ==
    /\ last.op = "peek" /\ last.arg = 1
    /\ Len(last.before) = 2 /\ last.before[1] # last.before[2]
    /\ last.ret = last.before[2]
    /\ items = last.before

\* C19: on a queue constructed with maxsize k >= 1 the item count never
\* exceeds k, whatever push, pop, peek and remove calls are made.
C19_CapacityInvariant ==
    (constructed /\ maxsize # None /\ Val(maxsize) >= 1) =>
        item_count(items) <= Val(maxsize)

\* C20: a push that raises Full, a pop that raises Empty and a remove that
\* raises IndexError leave the item sequence and maxsize unchanged.
C20_FailedCallsNoEffect ==
    /\ []((last.op \in {"push", "pop", "remove"} /\ last.exc # NoExc) =>
            items = last.before)
    /\ [][(last'.op \in {"push", "pop", "remove"} /\ nOps' = nOps + 1
           /\ last'.exc # NoExc) =>
            (items' = items /\ maxsize' = maxsize)]_vars

C20_Witness ==
    /\ last.op = "push" /\ last.exc = Raise("Full", 50)
    /\ Len(last.before) = 2 /\ items = last.before
    /\ maxsize = Some(2)

\* =================================================================== codec
\* Message(msg_content) for a str and for a 4-tuple (lines 115-126).
Message_from_str(b) ==
    LET r == to_tuple(b) IN
    IF r.exc # NoExc THEN [exc |-> r.exc, msg |-> NoMessage]
    ELSE [exc |-> NoExc,
          msg |-> [raw_msg |-> b, msg_type |-> r.tuple.type,
                   sender_addr |-> r.tuple.sender, dest_addr |-> r.tuple.dest,
                   payload |-> r.tuple.payload]]

Message_from_tuple(t, ord) ==
    LET r == to_raw(t, ord) IN
    IF r.exc # NoExc THEN [exc |-> r.exc, msg |-> NoMessage]
    ELSE [exc |-> NoExc,
          msg |-> [raw_msg |-> r.raw, msg_type |-> t.type,
                   sender_addr |-> t.sender, dest_addr |-> t.dest,
                   payload |-> t.payload]]

\* The inputs: message types around the 16-bit range, short addresses over
\* {NUL, 'a'}, long addresses around the 8-bit header-size limit, and
\* payloads with zero, one and two keys.
AddrBytes == {NUL, 97}
ShortAddrs == UNION {[1..n -> AddrBytes] : n \in 0..MaxAddrLen}
LongAddr(n) == [i \in 1..n |-> 97]
LongAddrs == {LongAddr(126), LongAddr(127)}
Types == {-1, 0, 6000, 65535, 65536}
KeyT == <<116>>
KeyU == <<117>>
Payloads ==
    { EmptyDict,
      [k \in {KeyT} |-> IntVal(72)],
      [k \in {KeyT, KeyU} |-> IF k = KeyT THEN IntVal(-5) ELSE StrVal(<<120, 121>>)] }

\* The orders in which a dict's keys can be iterated.
Orders(d) ==
    {o \in [1..Cardinality(DOMAIN d) -> DOMAIN d] :
        \A i, j \in DOMAIN o : i # j => o[i] # o[j]}

\* Every payload is paired with type 6000, the other types with {} only.
Tuples ==
    {[type |-> ty, sender |-> sa, dest |-> da, payload |-> pl] :
        ty \in {6000}, sa \in ShortAddrs, da \in ShortAddrs, pl \in Payloads}
    \cup
    {[type |-> ty, sender |-> sa, dest |-> da, payload |-> EmptyDict] :
        ty \in Types, sa \in ShortAddrs, da \in ShortAddrs}
    \cup
    {[type |-> 6000, sender |-> sa, dest |-> da, payload |-> EmptyDict] :
        sa \in LongAddrs, da \in LongAddrs}

CodecInit ==
    /\ QueueInit /\ ClientIdle
    /\ cpc = "start"
    /\ msg_tuple \in Tuples
    /\ order \in Orders(msg_tuple.payload)
    /\ encoded = NoResult
    /\ wire = << >>
    /\ flip = -1
    /\ decoded = NoDecode
    /\ forge = NoForge
    /\ msgobj = NotBuilt

\* Message(msg_tuple): the constructor calls Message._to_raw(msg_tuple).
Encode ==
    /\ cpc = "start"
    /\ encoded' = to_raw(msg_tuple, order)
    /\ msgobj' = Message_from_tuple(msg_tuple, order)
    /\ wire' = encoded'.raw
    /\ cpc' = IF encoded'.exc = NoExc THEN "encoded" ELSE "encfail"
    /\ UNCHANGED <<msg_tuple, order, flip, decoded, forge, qvars, kvars>>

\* The body of an encoded message: the bytes after the variable header and
\* before the checksum (1-based positions BodyFirst..BodyLast of the wire).
BodyFirst(t) == 13 + Len(t.sender) + Len(t.dest) + 2 + 1
BodyLast(w) == Len(w) - 4

FlipBit(b, k) == IF k \in BitsOf(b) THEN b - Pow2(k) ELSE b + Pow2(k)

\* One bit of the body is inverted in transit.
FlipBodyBit(pos, k) ==
    /\ cpc = "encoded" /\ flip = -1 /\ forge = NoForge
    /\ pos \in BodyFirst(msg_tuple)..BodyLast(wire)
    /\ wire' = [wire EXCEPT ![pos] = FlipBit(wire[pos], k)]
    /\ flip' = 8 * (pos - BodyFirst(msg_tuple)) + k
    /\ UNCHANGED <<cpc, msg_tuple, order, encoded, decoded, forge, msgobj,
                   qvars, kvars>>

\* h followed by its checksum, as line 169 appends it.
Seal(h) == h \o pack_i(crc32(h))

Forged(w, kind, arg, sealed) ==
    /\ cpc = "encoded" /\ flip = -1 /\ forge = NoForge
    /\ wire' = w
    /\ forge' = [kind |-> kind, arg |-> arg, sealed |-> sealed]
    /\ UNCHANGED <<cpc, msg_tuple, order, encoded, flip, decoded, msgobj,
                   qvars, kvars>>

\* The receiver is handed n < 20 bytes: the first n bytes of the message,
\* or (sealed) its first n - 4 bytes followed by their own checksum.
Truncate(n, sealed) ==
    /\ cpc = "encoded" /\ flip = -1 /\ forge = NoForge
    /\ n < 20 /\ (sealed => n >= 4)
    /\ Forged(IF sealed THEN Seal(SubSeq(wire, 1, n - 4)) ELSE SubSeq(wire, 1, n),
              "trunc", n, sealed)

\* The variable-header-size byte (offset 8) is overwritten with v; sealed:
\* the checksum is recomputed over the altered bytes.
SetHeadSize(v, sealed) ==
    /\ cpc = "encoded" /\ flip = -1 /\ forge = NoForge
    /\ v # wire[9]
    /\ LET w == [wire EXCEPT ![9] = v]
       IN  Forged(IF sealed THEN Seal(SubSeq(w, 1, Len(w) - 4)) ELSE w,
                  "headsize", v, sealed)

\* The 3-byte body-size field (offsets 5-7) is overwritten with v and the
\* checksum recomputed.
SetBodySize(v) ==
    /\ cpc = "encoded" /\ flip = -1 /\ forge = NoForge
    /\ pack_I_low3(v) # SubSeq(wire, 6, 8)
    /\ LET b == pack_I_low3(v)
           w == [wire EXCEPT ![6] = b[1], ![7] = b[2], ![8] = b[3]]
       IN  Forged(Seal(SubSeq(w, 1, Len(w) - 4)), "bodysize", v, TRUE)

\* Message(wire): the constructor calls Message._to_tuple(wire).
Decode ==
    /\ cpc = "encoded"
    /\ decoded' = to_tuple(wire)
    /\ msgobj' = Message_from_str(wire)
    /\ cpc' = "decoded"
    /\ UNCHANGED <<msg_tuple, order, encoded, wire, flip, forge, qvars, kvars>>

\* The values written over the header-size byte and the body-size field.
HeadSizes == 0..(2 * MaxAddrLen + 3) \cup {255}
BodySizes == {0, 5, 16777215}

CodecNext ==
    \/ Encode
    \/ \E pos \in 1..Len(wire), k \in 0..7 : FlipBodyBit(pos, k)
    \/ \E n \in 0..19, sealed \in BOOLEAN : Truncate(n, sealed)
    \/ \E v \in HeadSizes, sealed \in BOOLEAN : SetHeadSize(v, sealed)
    \/ \E v \in BodySizes : SetBodySize(v)
    \/ Decode

CodecSpec == CodecInit /\ [][CodecNext]_vars

\* ============================================================ codec claims
NulFree(b) == \A i \in 1..Len(b) : b[i] # NUL

ValidTuple(t) ==
    /\ t.type \in 0..65535
    /\ NulFree(t.sender) /\ NulFree(t.dest)
    /\ Len(t.sender) + Len(t.dest) <= 253

\* C9: for a tuple with type in 0..65535 and NUL-free sender and destination
\* of combined length <= 253, encoding succeeds and decoding the encoded
\* bytes succeeds and yields the same tuple.
C9_RoundTrip ==
    (ValidTuple(msg_tuple) /\ flip = -1 /\ forge = NoForge) =>
        /\ cpc # "encfail"
        /\ cpc = "decoded" => (decoded.exc = NoExc /\ decoded.tuple = msg_tuple)

C9_Witness ==
    /\ cpc = "decoded" /\ flip = -1 /\ forge = NoForge
    /\ ValidTuple(msg_tuple)
    /\ msg_tuple.type = 6000 /\ msg_tuple.sender = <<97>>
    /\ Cardinality(DOMAIN msg_tuple.payload) = 2
    /\ decoded.tuple = msg_tuple

\* C10: decoding an encoded message in which one bit of the body has been
\* flipped raises the checksum-mismatch exception (line 188) and nothing else.
C10_TamperDetected ==
    (cpc = "decoded" /\ flip >= 0) => decoded.exc = Raise("Exception", 188)

C10_Witness ==
    /\ cpc = "decoded" /\ flip = 49
    /\ msg_tuple.payload = [k \in {KeyT} |-> IntVal(72)]
    /\ decoded.exc = Raise("Exception", 188)

\* The checks of _to_tuple, each stated on the bytes alone.
CrcOk(w) ==
    SubSeq(w, Len(w) - 3, Len(w)) = Crc32Bytes(SubSeq(w, 1, Len(w) - 4))
\* The number of fields raw_msg[13:13 + raw_msg[8]] splits into on NUL.
HeaderFields(w) ==
    1 + Cardinality({i \in 14..Min(13 + w[9], Len(w)) : w[i] = NUL})
\* raw_msg[13 + raw_msg[8] : len(raw_msg) - 4]
BodyOf(w) == PySlice(w, 13 + w[9], Len(w) - 4)

\* C11: decoding any input shorter than 20 bytes, the empty input included,
\* raises the invalid-format exception of line 181.
C11_MinimumLength ==
    (cpc = "decoded" /\ Len(wire) < 20) =>
        decoded.exc = Raise("Exception", 181)

C11_Witness ==
    /\ cpc = "decoded" /\ Len(wire) = 19
    /\ forge.kind = "trunc" /\ ~forge.sealed
    /\ decoded.exc = Raise("Exception", 181)

\* C12: decoding an input of at least 20 bytes with a valid checksum whose
\* variable header splits into fewer than two fields raises the same
\* invalid-format exception as a too-short input (line 181).
C12_MissingTerminators ==
    (/\ cpc = "decoded"
     /\ Len(wire) >= 20
     /\ CrcOk(wire)
     /\ HeaderFields(wire) < 2) =>
        decoded.exc = Raise("Exception", 181)

\* C13: a constructed Message has NUL-free sender and destination, and a
\* tuple whose sender or destination contains NUL constructs no Message.
C13_AddressesNulFree ==
    /\ (cpc \in {"encoded", "decoded"} /\ msgobj.exc = NoExc) =>
          (NulFree(msgobj.msg.sender_addr) /\ NulFree(msgobj.msg.dest_addr))
    /\ (cpc \in {"encoded", "encfail"}
        /\ ~(NulFree(msg_tuple.sender) /\ NulFree(msg_tuple.dest))) =>
          msgobj.exc # NoExc

\* C14: encoding a tuple whose sender and destination lengths sum to more
\* than 253, or whose type is outside 0..65535, raises the invalid-format
\* exception of line 171 and returns no bytes; no Message is constructed.
C14_EncodeRangeFailure ==
    (/\ cpc # "start"
     /\ \/ Len(msg_tuple.sender) + Len(msg_tuple.dest) > 253
        \/ msg_tuple.type \notin 0..65535) =>
        /\ cpc = "encfail"
        /\ encoded = [exc |-> Raise("Exception", 171), raw |-> << >>]
        /\ wire = << >>
        /\ msgobj.exc = Raise("Exception", 171)

C14_Witness ==
    /\ cpc = "encfail"
    /\ msg_tuple.type = 6000
    /\ Len(msg_tuple.sender) = 127 /\ Len(msg_tuple.dest) = 127
    /\ encoded.exc = Raise("Exception", 171)

\* C15: the bytes of every successfully encoded tuple: the 13 fixed header
\* bytes, sender, NUL, destination, NUL, the body, and the 4-byte checksum
\* of everything before it.
C15_WireLayout ==
    (cpc \in {"encoded", "decoded"}) =>
        LET w == encoded.raw
            sa == msg_tuple.sender
            da == msg_tuple.dest
            body == PyStr(msg_tuple.payload, order)
            p == 13 + Len(sa)
            q == p + 1 + Len(da)
        IN  /\ Len(w) = 13 + Len(sa) + Len(da) + 2 + Len(body) + 4
            /\ w[1] = 4
            /\ w[2] * 256 + w[3] = msg_tuple.type
            /\ w[4] = 1
            /\ w[5] = 0
            /\ w[6] * 65536 + w[7] * 256 + w[8] = (4 + Len(body)) % 16777216
            /\ w[9] = Len(sa) + Len(da) + 2
            /\ w[10] = 0 /\ w[11] = 120
            /\ w[12] = 0 /\ w[13] = 0
            /\ \A i \in 1..Len(w) : w[i] \in 0..255
            /\ SubSeq(w, 14, p) = sa
            /\ w[p + 1] = NUL
            /\ SubSeq(w, p + 2, q) = da
            /\ w[q + 1] = NUL
            /\ SubSeq(w, q + 2, Len(w) - 4) = body
            /\ CrcOk(w)

C15_Witness ==
    /\ cpc = "encoded" /\ flip = -1 /\ forge = NoForge
    /\ msg_tuple.type = 6000
    /\ msg_tuple.sender = <<97>> /\ msg_tuple.dest = <<97>>
    /\ Cardinality(DOMAIN msg_tuple.payload) = 2
    /\ Len(encoded.raw) = 41

\* C17: _to_tuple checks length, then checksum, then the header split, then
\* the payload; the first failing check decides the exception, no tuple is
\* returned, and the body is not evaluated unless the first three pass.
C17_ValidationOrder ==
    cpc = "decoded" =>
        /\ (decoded.exc # NoExc => decoded.tuple = NoTuple)
        /\ IF Len(wire) < 20
           THEN decoded.exc = Raise("Exception", 181) /\ ~decoded.evald
           ELSE IF ~CrcOk(wire)
           THEN decoded.exc = Raise("Exception", 188) /\ ~decoded.evald
           ELSE IF HeaderFields(wire) < 2
           THEN decoded.exc.at = 199 /\ ~decoded.evald
           ELSE IF ~PyEval(BodyOf(wire)).ok
           THEN decoded.exc = Raise("Exception", 206) /\ decoded.evald
           ELSE decoded.exc = NoExc /\ decoded.evald

C17_Witness ==
    /\ cpc = "decoded"
    /\ forge.kind = "headsize" /\ forge.arg = 0 /\ ~forge.sealed
    /\ HeaderFields(wire) < 2 /\ ~PyEval(BodyOf(wire)).ok
    /\ decoded.exc = Raise("Exception", 188)

\* C18: a message whose body-size field (and hence checksum) alone differs
\* from an encoded message decodes without error to the same tuple.
C18_BodySizeIgnored ==
    (cpc = "decoded" /\ forge.kind = "bodysize") =>
        /\ decoded.exc = NoExc
        /\ decoded.tuple = to_tuple(encoded.raw).tuple
        /\ ValidTuple(msg_tuple) => decoded.tuple = msg_tuple

C18_Witness ==
    /\ cpc = "decoded"
    /\ forge.kind = "bodysize" /\ forge.arg = 0
    /\ ValidTuple(msg_tuple) /\ msg_tuple.sender = <<97>>
    /\ Cardinality(DOMAIN msg_tuple.payload) = 1
    /\ decoded.tuple = msg_tuple

\* ================================================================== client
\* str.encode('hex') and str.decode('hex').
HexDigit(n) == IF n < 10 THEN Digit0 + n ELSE 87 + n
HexEncode(b) ==
    [i \in 1..(2 * Len(b)) |->
        IF i % 2 = 1 THEN HexDigit(b[(i + 1) \div 2] \div 16)
        ELSE HexDigit(b[i \div 2] % 16)]

IsHexDigit(c) == IsDigit(c) \/ (97 <= c /\ c <= 102) \/ (65 <= c /\ c <= 70)
HexValue(c) == IF IsDigit(c) THEN c - Digit0
               ELSE IF c >= 97 THEN c - 87 ELSE c - 55
HexDecode(h) ==
    IF Len(h) % 2 = 1 \/ \E i \in 1..Len(h) : ~IsHexDigit(h[i])
    THEN [ok |-> FALSE, bytes |-> << >>]
    ELSE [ok |-> TRUE,
          bytes |-> [i \in 1..(Len(h) \div 2) |->
                        16 * HexValue(h[2 * i - 1]) + HexValue(h[2 * i])]]

\* The broker's textual responses.
RespOK == <<79, 75>>
RespFAIL == <<70, 65, 73, 76>>
RespEMPTY == <<69, 77, 80, 84, 89>>

IsAscii(b) == \A i \in 1..Len(b) : b[i] < 128

\* Client.send_msg(message) against a network that behaves as `net`
\* ("ok", "refused": connect raises, "recv_timeout": recv raises) and a
\* broker that answers `resp`.  Every exception raised inside the try block
\* (lines 231-245) is caught on line 246 and replaced on line 247.
send_msg(message, net, resp) ==
    LET base == [op |-> "send", net |-> net, resp |-> << >>, sent |-> << >>,
                 exc |-> Raise("Exception", 247), text |-> "", ret |-> FALSE,
                 msg |-> message, opened |-> TRUE, closed |-> FALSE]
        hex == HexEncode(message.raw_msg)
    IN  IF net = "refused"
        THEN [base EXCEPT !.text = "Msg send failed: " \o "[Errno 111] Connection refused"]
        ELSE IF net = "recv_timeout"
        THEN [base EXCEPT !.sent = hex, !.text = "Msg send failed: " \o "timed out"]
        ELSE IF ~IsAscii(resp)
        THEN [base EXCEPT !.sent = hex, !.resp = resp,
                          !.text = "Msg send failed: " \o "'ascii' codec can't decode byte"]
        ELSE IF resp = RespOK
        THEN [base EXCEPT !.sent = hex, !.resp = resp, !.closed = TRUE,
                          !.exc = NoExc, !.ret = TRUE]
        ELSE IF resp = RespFAIL
        THEN [base EXCEPT !.sent = hex, !.resp = resp, !.closed = TRUE,
                          !.text = "Msg send failed: "
                                   \o "Msg send failed: Broker responded with FAIL."]
        ELSE [base EXCEPT !.sent = hex, !.resp = resp, !.closed = TRUE,
                          !.text = "Msg send failed: "
                                   \o "Unhandled response received from broker - Send aborted."]

\* Client.fetch_next_msg(queue_name).  Only connect, send and recv are inside
\* the try block (lines 253-262); sock.close() is reached on line 270 only
\* when nothing was raised before it.
fetch_next_msg_wrapping(queue_name, net, resp) ==
    LET base == [op |-> "fetch", net |-> net, resp |-> << >>, sent |-> << >>,
                 exc |-> Raise("Exception", 262), text |-> "", ret |-> FALSE,
                 msg |-> NoMessage, opened |-> TRUE, closed |-> FALSE]
        h == HexDecode(resp)
        m == Message_from_str(h.bytes)
    IN  IF net = "refused"
        THEN [base EXCEPT !.text = "[Errno 111] Connection refused"]
        ELSE IF net = "recv_timeout"
        THEN [base EXCEPT !.sent = queue_name, !.text = "timed out"]
        ELSE IF resp = RespEMPTY
        THEN [base EXCEPT !.sent = queue_name, !.resp = resp,
                          !.exc = Raise("Empty", 266)]
        ELSE IF ~h.ok \/ m.exc # NoExc
        THEN [base EXCEPT !.sent = queue_name, !.resp = resp]
        ELSE [base EXCEPT !.sent = queue_name, !.resp = resp, !.exc = NoExc,
                          !.msg = m.msg, !.closed = TRUE]

fetch_next_msg(queue_name, net, resp) ==
    LET base == [op |-> "fetch", net |-> net, resp |-> << >>, sent |-> << >>,
                 exc |-> Raise("Exception", 262), text |-> "", ret |-> FALSE,
                 msg |-> NoMessage, opened |-> TRUE, closed |-> FALSE]
        h == HexDecode(resp)
        m == Message_from_str(h.bytes)
    IN  IF net = "refused"
        THEN [base EXCEPT !.text = "[Errno 111] Connection refused"]
        ELSE IF net = "recv_timeout"
        THEN [base EXCEPT !.sent = queue_name, !.text = "timed out"]
        ELSE IF resp = RespEMPTY
        THEN [base EXCEPT !.sent = queue_name, !.resp = resp,
                          !.exc = Raise("Empty", 266)]
        ELSE IF ~h.ok
        THEN [base EXCEPT !.sent = queue_name, !.resp = resp,
                          !.exc = Raise("TypeError", 268)]
        ELSE IF m.exc # NoExc
        THEN [base EXCEPT !.sent = queue_name, !.resp = resp, !.exc = m.exc]
        ELSE [base EXCEPT !.sent = queue_name, !.resp = resp, !.exc = NoExc,
                          !.msg = m.msg, !.closed = TRUE]

\* The inputs of the client calls.
Nets == {"ok", "refused", "recv_timeout"}
SendTuples ==
    { [type |-> 6000, sender |-> <<97>>, dest |-> <<98>>,
       payload |-> [k \in {KeyT} |-> IntVal(72)]],
      [type |-> 1, sender |-> << >>, dest |-> <<98, 99>>, payload |-> EmptyDict] }
SendResponses == {RespOK, RespFAIL, << >>, <<111, 107>>, <<78, 79>>, <<255>>}

\* What the broker holds: encoded messages, one of them damaged in its body,
\* and byte strings that are no messages.
BrokerTuples == SendTuples
BrokerWire(t) == to_raw(t, CHOOSE o \in Orders(t.payload) : TRUE).raw
Damaged(w) == [w EXCEPT ![Len(w) - 4] = FlipBit(w[Len(w) - 4], 0)]
BrokerWires ==
    {BrokerWire(t) : t \in BrokerTuples}
    \cup {Damaged(BrokerWire(t)) : t \in BrokerTuples}
    \cup {<< >>, <<4, 0, 1>>}
FetchResponses ==
    {RespEMPTY, <<101, 109, 112, 116, 121>>, <<122, 122>>, <<97, 98, 99>>}
    \cup {HexEncode(w) : w \in BrokerWires}
QueueNames == {<<113>>, <<113, 50>>}

ClientInit ==
    /\ QueueInit /\ CodecIdle
    /\ kpc = "ready"
    /\ calls = 0
    /\ lastCall = NoClientCall
    /\ openSocks = 0

ClientCalled(r) ==
    /\ lastCall' = r
    /\ calls' = calls + 1
    /\ openSocks' = IF r.opened /\ ~r.closed THEN openSocks + 1 ELSE openSocks
    /\ UNCHANGED <<kpc, qvars, cvars>>

\* client.send_msg(Message(t))
SendMsg(t, ord, net, resp) ==
    /\ kpc = "ready" /\ calls < MaxCalls
    /\ Message_from_tuple(t, ord).exc = NoExc
    /\ ClientCalled(send_msg(Message_from_tuple(t, ord).msg, net, resp))

\* client.fetch_next_msg(queue_name)
FetchNextMsg(queue_name, net, resp) ==
    /\ kpc = "ready" /\ calls < MaxCalls
    /\ ClientCalled(fetch_next_msg(queue_name, net, resp))

ClientNext ==
    \/ \E t \in SendTuples, net \in Nets, resp \in SendResponses :
          \E ord \in Orders(t.payload) : SendMsg(t, ord, net, resp)
    \/ \E queue_name \in QueueNames, net \in Nets, resp \in FetchResponses :
          FetchNextMsg(queue_name, net, resp)

ClientSpec == ClientInit /\ [][ClientNext]_vars

\* =========================================================== client claims
\* C6: when a send_msg or fetch_next_msg call completes, normally or with an
\* exception, the socket it opened has been closed and no socket stays open.
C6_ConnectionClosed ==
    /\ (lastCall.op \in {"send", "fetch"} /\ lastCall.opened) => lastCall.closed
    /\ openSocks = 0

\* The exception that reports a failed send to the caller (line 247).
SendErrorKind == Raise("Exception", 247)

\* C7: send_msg returns True exactly when the response is "OK"; a "FAIL"
\* response raises an exception of a kind of its own; any other response
\* or a connection failure raises the send-error exception.
C7_SendOutcomeMapping ==
    lastCall.op = "send" =>
        /\ (lastCall.ret = TRUE <=> (lastCall.net = "ok" /\ lastCall.resp = RespOK))
        /\ (lastCall.ret = TRUE <=> lastCall.exc = NoExc)
        /\ (lastCall.net = "ok" /\ lastCall.resp = RespFAIL) =>
              (lastCall.exc # NoExc /\ lastCall.exc # SendErrorKind)
        /\ (lastCall.net # "ok" \/ lastCall.resp \notin {RespOK, RespFAIL}) =>
              lastCall.exc = SendErrorKind

\* C8: a fetch response "EMPTY", and no other outcome, raises Queue.Empty;
\* any other response is hex-decoded and decoded by the codec: an encoded
\* message held by the broker is returned as a Message with its fields and
\* raw bytes, and an exception of the codec reaches the caller as raised.
C8_FetchOutcomeMapping ==
    lastCall.op = "fetch" =>
        /\ (lastCall.exc.cls = "Empty" <=>
               (lastCall.net = "ok" /\ lastCall.resp = RespEMPTY))
        /\ \A t \in BrokerTuples :
              (lastCall.net = "ok" /\ lastCall.resp = HexEncode(BrokerWire(t))) =>
                  /\ lastCall.exc = NoExc
                  /\ lastCall.msg.raw_msg = BrokerWire(t)
                  /\ lastCall.msg.msg_type = t.type
                  /\ lastCall.msg.sender_addr = t.sender
                  /\ lastCall.msg.dest_addr = t.dest
                  /\ lastCall.msg.payload = t.payload
        /\ \A w \in BrokerWires :
              (lastCall.net = "ok" /\ lastCall.resp = HexEncode(w)) =>
                  lastCall.exc = to_tuple(w).exc

C8_Witness ==
    /\ lastCall.op = "fetch" /\ lastCall.net = "ok"
    /\ \E t \in BrokerTuples :
          /\ lastCall.resp = HexEncode(Damaged(BrokerWire(t)))
          /\ lastCall.exc = Raise("Exception", 188)
    /\ calls = 3

\* ============================================================ queue claims
\* s with its p-th element (1-based) deleted.
Without(s, p) == SubSeq(s, 1, p - 1) \o SubSeq(s, p + 1, Len(s))

\* C1: n successful pushes on a new queue followed by n pops return the
\* pushed items in push order, no pop fails, and the queue is then empty.
C1_QueueFifo ==
    /\ fifoPhase # "fail"
    /\ fifoPhase = "pop" =>
         /\ fifoPopped = SubSeq(fifoPushed, 1, Len(fifoPopped))
         /\ (Len(fifoPopped) = Len(fifoPushed) => items = << >>)

C1_Witness ==
    /\ fifoPhase = "pop"
    /\ Len(fifoPushed) = 3 /\ Len(fifoPopped) = 3
    /\ fifoPushed[1] # fifoPushed[3]

\* C2: on a queue constructed with maxsize k >= 0, the first k pushes
\* succeed and push number k+1 raises Queue.Full.
C2_QueueCapacity ==
    (constructed /\ onlyPushes /\ maxsize # None) =>
        \A i \in 1..Len(pushExcs) :
            /\ (i <= Val(maxsize) => pushExcs[i] = "NoExc")
            /\ (i = Val(maxsize) + 1 => pushExcs[i] = "Full")

\* C3 (as claimed): peek(n) and remove(n) on an empty queue both raise
\* Queue.Empty.
C3_EmptyQueueSignalsEmpty ==
    (last.op \in {"peek", "remove"} /\ last.before = << >>) =>
        last.exc.cls = "Empty"

\* C3 (amended): on an empty queue peek(n) raises Queue.Empty and remove(n)
\* raises IndexError, for every n; the queue stays empty.
C3_EmptyQueueErrors ==
    (last.op \in {"peek", "remove"} /\ last.before = << >>) =>
        /\ (last.op = "peek" => last.exc.cls = "Empty")
        /\ (last.op = "remove" => last.exc.cls = "IndexError")
        /\ items = << >>

C3_Witness ==
    /\ last.op = "remove" /\ last.before = << >> /\ last.arg = 0
    /\ last.exc.cls = "IndexError"
    /\ nOps >= 3

\* C4: on a non-empty queue, peek(n) and remove(n) with n >= item count
\* raise IndexError and leave the item sequence as it was.
C4_NonEmptyOutOfRange ==
    (/\ last.op \in {"peek", "remove"}
     /\ last.before # << >>
     /\ last.arg >= Len(last.before)) =>
        /\ last.exc.cls = "IndexError"
        /\ items = last.before

C4_Witness ==
    /\ last.op = "remove"
    /\ Len(last.before) = 2
    /\ last.arg = 2
    /\ last.exc.cls = "IndexError"

\* C5: a remove(n) call either raises IndexError or deletes exactly the one
\* item that n addresses: the count drops by one and the other items keep
\* their order.
C5_RemoveExactlyOne ==
    last.op = "remove" =>
        \/ last.exc.cls = "IndexError"
        \/ /\ Len(items) = Len(last.before) - 1
           /\ \E p \in 1..Len(last.before) :
                /\ (last.arg >= 0 => p = last.arg + 1)
                /\ items = Without(last.before, p)

====
